---- MODULE Spec2Model ----
(***************************************************************************)
(* PeelForge: border-seeded flood-fill background removal (useRmbg.ts),    *)
(* the mask compositor and upload flow (App.tsx) and the brush editor      *)
(* (components/ManualEditor.tsx), as one state machine.                    *)
(*                                                                         *)
(* Conventions.                                                            *)
(*  - A grid (mask, edge map, visited set) is a function on 0..n-1, the    *)
(*    flat index y*width+x of the code.                                    *)
(*  - An image is [width, height, px]; px[k] is the <<r,g,b>> of pixel k.  *)
(*    Data(img, i) is the read data[i] of the flat RGBA buffer, Undef      *)
(*    outside it (a JavaScript typed array yields undefined there).        *)
(*  - Math.sqrt(s) > t and Math.sqrt(s) <= t are decided on the squares    *)
(*    (s > t*t, s <= t*t): s and t*t are exact and sqrt is monotone.       *)
(*  - Pointer coordinates and brush radii are fixed-point numbers in       *)
(*    quarter pixels (a value v stands for v/4): brushSize/2 and the       *)
(*    scaled pointer position of getMousePos are not integers.             *)
(*  - The editor's isDrawing, showCursor, currentMask, editMode and        *)
(*    brushSize are the values of the last render, the ones the handlers'  *)
(*    closures read; a setState is queued in `pending` and takes effect    *)
(*    at the next render.  React renders synchronously at the end of a     *)
(*    discrete event (mousedown, mouseup, click, change) and in a later    *)
(*    task after a continuous one (mousemove, mouseenter, mouseleave).     *)
(***************************************************************************)
EXTENDS Integers, Sequences, FiniteSets, TLC

VARIABLES
    \* ---- useRmbg.removeBackground: one run
    pc,            \* "idle" | "seeding" | "filling" | "done" | "failed": the run
    image,         \* the image of the current/last run, or Null
    edgeMask,      \* createEdgeMask() of the run
    visited,       \* scratch grid of the run
    isBackground,  \* scratch grid of the run
    maskData,      \* output buffer of the run
    bgColor,       \* detectBackgroundColor() of the run
    seedPos,       \* position in the border-seeding loops
    stack,         \* floodFill's stack
    targetColor,   \* floodFill's targetColor
    fillBase,      \* `visited` as it was when the current floodFill was called
    cost,          \* the run's floodFill calls, `visited[idx] = 1` writes and
                   \* entries put on a stack, counted
    prevRuns,      \* the [image, mask] of the runs completed before the current one
    calls,         \* number of removeBackground calls so far
    \* ---- App
    ready, original, result, processing, processingError,
    showManualEditor, currentMask, loads,
    \* ---- ManualEditor
    mounted, isDrawing, editMode, brushSize, edCurrentMask, showCursor,
    overlay, pending, propMask, pointerOver, strokes, lastEvent, spent,
    \* ---- direct calls with arbitrary arguments (contract harness)
    call

segVars == <<pc, image, edgeMask, visited, isBackground, maskData, bgColor,
             seedPos, stack, targetColor, fillBase, cost, prevRuns, calls>>
appVars == <<ready, original, result, processing, processingError,
             showManualEditor, currentMask, loads>>
edVars  == <<mounted, isDrawing, editMode, brushSize, edCurrentMask, showCursor,
             overlay, pending, propMask, pointerOver, strokes, lastEvent>>
vars    == <<segVars, appVars, edVars, spent, call>>

\* null, and a setState that is not queued
Null  == <<>>
\* undefined, the value of a typed-array read outside the buffer: written as
\* a number that no read inside a buffer yields, so that it can be compared
\* with one.  Whether a read is defined is decided by its index (InBuffer)
Undef == -1

\* ------------------------------------------------------------------ bounds
MaxW       == 12   \* width of the largest images of the segmentation family
MaxH       == 11   \* height of the largest images of the segmentation family
MaxCalls   == 2    \* removeBackground calls in one behaviour of SpecSeg
MaxUploads == 1    \* uploads in one behaviour of Spec
MaxRuns    == 2    \* uploads and retries in one behaviour of SpecApp
EditW      == 9    \* width of the images edited in Spec
EditH      == 8    \* height of the images edited in Spec
MaxStrokes == 2    \* brush strokes in one behaviour
MaxDrawStrokes == 3  \* brush strokes in one behaviour of SpecDraw
MaxMaskLen == 5    \* length of the longest mask of a direct call in SpecCalls

\* ------------------------------------------------------- program constants
threshold       == 40   \* createEdgeMask: threshold
colorTolerance  == 35   \* removeBackground: colorTolerance
borderWidth     == 5    \* removeBackground: border seeding band
bgBorderWidth   == 10   \* detectBackgroundColor: borderWidth
defaultBrush    == 20   \* useState(20)
minBrush        == 5    \* <input type="range" min="5">

\* ------------------------------------------------------------------ images
Pixels(img) == 0 .. (img.width * img.height - 1)

\* data[i] of the RGBA buffer of getImageData (alpha of a decoded image: 255)
Data(img, i) ==
    IF i < 0 \/ i >= img.width * img.height * 4 THEN Undef
    ELSE IF i % 4 = 3 THEN 255
    ELSE img.px[i \div 4][(i % 4) + 1]

\* an image of one colour
UniformImage(w, h, c) ==
    [width |-> w, height |-> h, px |-> [k \in 0 .. (w * h - 1) |-> c]]

White == <<255, 255, 255>>
Black == <<0, 0, 0>>
InBox(x, y, b) == b[1] <= x /\ x <= b[3] /\ b[2] <= y /\ y <= b[4]

\* a box of colour c1 on a ground of colour c0, with one pixel of colour c2
BoxImage(w, h, c0, c1, c2, b, sx, sy) ==
    [width |-> w, height |-> h,
     px |-> [k \in 0 .. (w * h - 1) |->
               IF k % w = sx /\ k \div w = sy THEN c2
               ELSE IF InBox(k % w, k \div w, b) THEN c1 ELSE c0]]

\* a horizontal ramp: column x has the grey (g*x) % 256
RampImage(w, h, g) ==
    [width |-> w, height |-> h,
     px |-> [k \in 0 .. (w * h - 1) |->
               <<(g * (k % w)) % 256, (g * (k % w)) % 256, (g * (k % w)) % 256>>]]

\* ------------------------------------------------- removeBackground: parts
\* the truthiness of grid[idx]: undefined (outside the array) and 0 are falsy
Truthy(grid, idx) == idx \in DOMAIN grid /\ grid[idx] # 0

NewUint8Array(n) == [k \in 0 .. (n - 1) |-> 0]

Sq(a) == a * a

\* the radicand of Math.sqrt(pow(r-r',2) + pow(g-g',2) + pow(b-b',2)) for the
\* pixels at flat indices p and q
Gradient2(img, p, q) ==
    Sq(Data(img, p * 4) - Data(img, q * 4))
    + Sq(Data(img, p * 4 + 1) - Data(img, q * 4 + 1))
    + Sq(Data(img, p * 4 + 2) - Data(img, q * 4 + 2))

\* variant: the eight neighbours of a 3x3 kernel
EdgeNeighbors8(img, x, y) ==
    {(y + dy) * img.width + (x + dx) :
        <<dx, dy>> \in ({-1, 0, 1} \X {-1, 0, 1}) \ {<<0, 0>>}}

\* the four neighbours read at lines 127-130: top, bottom, left, right
EdgeNeighbors(img, x, y) ==
    {(y - 1) * img.width + x, (y + 1) * img.width + x,
     y * img.width + (x - 1), y * img.width + (x + 1)}

\* variant: a gradient equal to the threshold counts as an edge
CreateEdgeMaskInclusive(img) ==
    [idx \in Pixels(img) |->
        LET x == idx % img.width
            y == idx \div img.width
        IN IF 1 <= y /\ y < img.height - 1 /\ 1 <= x /\ x < img.width - 1
           THEN IF \E n \in EdgeNeighbors(img, x, y) :
                       Gradient2(img, idx, n) >= Sq(threshold)
                THEN 1 ELSE 0
           ELSE 0]

\* createEdgeMask, lines 110-150
CreateEdgeMask(img) ==
    [idx \in Pixels(img) |->
        LET x == idx % img.width
            y == idx \div img.width
        IN IF 1 <= y /\ y < img.height - 1 /\ 1 <= x /\ x < img.width - 1
           THEN IF \E n \in EdgeNeighbors(img, x, y) :
                       Gradient2(img, idx, n) > Sq(threshold)
                THEN 1 ELSE 0
           ELSE 0]

\* variant: the grid of the run before is kept when it has the right size
StaleVisited(img) ==
    IF DOMAIN visited = 0 .. (img.width * img.height - 1) /\ visited # <<>>
    THEN visited
    ELSE NewUint8Array(img.width * img.height)

\* the scratch grid `visited` of a run
FreshVisited(img) == NewUint8Array(img.width * img.height)

\* ---- border seeding, lines 202-214: the s-th seed test of the loops, in
\* the order the code makes them; vidx is the index tested in `visited`
SeedsPerRing(img) == 2 * img.width + 2 * img.height
\* variant: only the outermost ring is seeded
NumSeedsOuterRing(img) == SeedsPerRing(img)

NumSeeds(img) == borderWidth * SeedsPerRing(img)

SeedAt(img, s) ==
    LET i == s \div SeedsPerRing(img)
        r == s % SeedsPerRing(img)
        w == img.width
        h == img.height
    IN IF r < 2 * w
       THEN LET j == r \div 2
            IN IF r % 2 = 0
               THEN [x |-> j, y |-> i, vidx |-> i * w + j]
               ELSE [x |-> j, y |-> h - 1 - i, vidx |-> (h - 1 - i) * w + j]
       ELSE LET j == (r - 2 * w) \div 2
            IN IF r % 2 = 0
               THEN [x |-> i, y |-> j, vidx |-> j * w + i]
               ELSE [x |-> w - 1 - i, y |-> j, vidx |-> j * w + (w - 1 - i)]

\* the seed tests from position `from` on that call floodFill
OpenSeeds(img, vis, from) ==
    {s \in from .. (NumSeeds(img) - 1) : ~Truthy(vis, SeedAt(img, s).vidx)}

Min(S) == CHOOSE m \in S : \A n \in S : m <= n
Max(S) == CHOOSE m \in S : \A n \in S : m >= n

\* ---- detectBackgroundColor, lines 69-104
\* the loops of lines 74-91 visit the same indices, in the same order, as the
\* seeding loops, over bgBorderWidth rings: the s-th sample is read at the
\* buffer indices BorderSampleAt(img, s) + 0, 1, 2
NumBorderSamples(img) == bgBorderWidth * SeedsPerRing(img)
BorderSampleAt(img, s) == SeedAt(img, s).vidx * 4

\* data[i] is a number (inside the buffer), not undefined
InBuffer(img, i) == 0 <= i /\ i < img.width * img.height * 4

\* values.sort((a, b) => a - b)[m] for the channel c of the samples: sort
\* puts the numbers in ascending order and every undefined after them
SortedChannelAt(img, c, m) ==
    LET D == {s \in 0 .. (NumBorderSamples(img) - 1) :
                 InBuffer(img, BorderSampleAt(img, s) + c)}
        V(s) == Data(img, BorderSampleAt(img, s) + c)
    IN IF m >= Cardinality(D) THEN Undef
       ELSE CHOOSE v \in {V(s) : s \in D} :
               /\ Cardinality({s \in D : V(s) < v}) <= m
               /\ m < Cardinality({s \in D : V(s) <= v})

\* variant: the estimate is the mean of the samples, one that was read
\* outside the buffer counting as 0
DetectBackgroundColorMean(img) ==
    [c \in 1 .. 3 |->
        LET D == {s \in 0 .. (NumBorderSamples(img) - 1) :
                     InBuffer(img, BorderSampleAt(img, s) + c - 1)}
            vals == {Data(img, BorderSampleAt(img, s) + c - 1) : s \in D}
        IN IF Cardinality(vals) = 1
           THEN ((CHOOSE v \in vals : TRUE) * Cardinality(D))
                    \div NumBorderSamples(img)
           ELSE 0]

\* the colour returned at lines 98-103
DetectBackgroundColor(img) ==
    [c \in 1 .. 3 |-> SortedChannelAt(img, c - 1, NumBorderSamples(img) \div 2)]

\* ---- floodFill, lines 161-199
\* variant: the fill compares with the global background estimate
ColorAtEstimate(img, x, y) == DetectBackgroundColor(img)

\* the colour read at `targetColor`
ColorAt(img, x, y) ==
    <<Data(img, (y * img.width + x) * 4),
      Data(img, (y * img.width + x) * 4 + 1),
      Data(img, (y * img.width + x) * 4 + 2)>>

Distance2(img, idx, target) ==
    Sq(Data(img, idx * 4) - target[1])
    + Sq(Data(img, idx * 4 + 1) - target[2])
    + Sq(Data(img, idx * 4 + 2) - target[3])

\* variant: the fill does not stop at edges
JoinsThroughEdges(img, edges, vis, target, e) ==
    LET idx == e[2] * img.width + e[1]
    IN /\ ~(e[1] < 0 \/ e[1] >= img.width \/ e[2] < 0 \/ e[2] >= img.height
            \/ Truthy(vis, idx))
       /\ ~(Distance2(img, idx, target) > Sq(colorTolerance))

\* variant: a pixel that was visited is not skipped
JoinsRevisiting(img, edges, vis, target, e) ==
    LET idx == e[2] * img.width + e[1]
    IN /\ ~(e[1] < 0 \/ e[1] >= img.width \/ e[2] < 0 \/ e[2] >= img.height
            \/ Truthy(edges, idx))
       /\ ~(Distance2(img, idx, target) > Sq(colorTolerance))

\* a popped [x, y] passes the two `continue`s of the loop body
Joins(img, edges, vis, target, e) ==
    LET idx == e[2] * img.width + e[1]
    IN /\ ~(e[1] < 0 \/ e[1] >= img.width \/ e[2] < 0 \/ e[2] >= img.height
            \/ Truthy(vis, idx) \/ Truthy(edges, idx))
       /\ ~(Distance2(img, idx, target) > Sq(colorTolerance))

\* stack.push([x + 1, y], [x - 1, y], [x, y + 1], [x, y - 1])
PushNeighbors(stk, x, y) ==
    stk \o << <<x + 1, y>>, <<x - 1, y>>, <<x, y + 1>>, <<x, y - 1>> >>

\* variant: the 0/1 flag is inverted but not scaled to 0/255
MaskValueFlag(isBg, i) == IF Truthy(isBg, i) THEN 0 ELSE 1

\* Step 4, lines 219-223
MaskValue(isBg, i) == IF Truthy(isBg, i) THEN 0 ELSE 255
CreateMask(out, isBg) == [i \in DOMAIN out |-> MaskValue(isBg, i)]

\* --------------------------------------------- removeBackground: the run
\* entry of removeBackground(img): lines 52-158
StartRun(img) ==
    /\ pc \in {"idle", "done"}
    /\ image' = img
    /\ maskData' = NewUint8Array(img.width * img.height)
    /\ bgColor' = DetectBackgroundColor(img)
    /\ edgeMask' = CreateEdgeMask(img)
    /\ isBackground' = NewUint8Array(img.width * img.height)
    /\ visited' = FreshVisited(img)
    /\ seedPos' = 0
    /\ stack' = <<>>
    /\ targetColor' = Null
    /\ fillBase' = Null
    /\ cost' = [fills |-> 0, marks |-> 0, pushes |-> 0]
    /\ prevRuns' = IF pc = "done"
                   THEN prevRuns \cup {[image |-> image, mask |-> maskData]}
                   ELSE prevRuns
    /\ calls' = calls + 1
    /\ pc' = "seeding"

\* the seeding loops up to the next floodFill(startX, startY) call
StartFill ==
    /\ pc = "seeding"
    /\ OpenSeeds(image, visited, seedPos) # {}
    /\ LET s == Min(OpenSeeds(image, visited, seedPos))
           sd == SeedAt(image, s)
       IN /\ stack' = << <<sd.x, sd.y>> >>
          /\ targetColor' = ColorAt(image, sd.x, sd.y)
          /\ seedPos' = s + 1
    /\ fillBase' = visited
    /\ cost' = [cost EXCEPT !.fills = @ + 1, !.pushes = @ + 1]
    /\ pc' = "filling"
    /\ UNCHANGED <<image, edgeMask, visited, isBackground, maskData, bgColor,
                   prevRuns, calls>>
    /\ UNCHANGED <<appVars, edVars, spent, call>>

\* the while loop of floodFill up to and including the next pixel that joins
\* the region: the entries popped before it `continue` and change nothing
FillStep ==
    /\ pc = "filling"
    /\ LET J == {k \in 1 .. Len(stack) :
                    Joins(image, edgeMask, visited, targetColor, stack[k])}
       IN IF J = {}
          THEN /\ stack' = <<>>
               /\ pc' = "seeding"
               /\ UNCHANGED <<visited, isBackground, cost>>
          ELSE LET k == Max(J)
                   x == stack[k][1]
                   y == stack[k][2]
                   idx == y * image.width + x
               IN /\ visited' = [visited EXCEPT ![idx] = 1]
                  /\ isBackground' = [isBackground EXCEPT ![idx] = 1]
                  /\ stack' = PushNeighbors(SubSeq(stack, 1, k - 1), x, y)
                  /\ cost' = [cost EXCEPT !.marks = @ + 1, !.pushes = @ + 4]
                  /\ pc' = "filling"
    /\ UNCHANGED <<image, edgeMask, maskData, bgColor, seedPos, targetColor,
                   fillBase, prevRuns, calls>>
    /\ UNCHANGED <<appVars, edVars, spent, call>>

\* the entries of a stack that can still join, without repetition and in
\* the order of their flat index
Candidates(img, edges, vis, target, stk) ==
    LET S == {stk[k][2] * img.width + stk[k][1] :
                 k \in {j \in 1 .. Len(stk) : Joins(img, edges, vis, target, stk[j])}}
    IN [i \in 1 .. Cardinality(S) |->
          LET idx == CHOOSE v \in S : Cardinality({u \in S : u < v}) = i - 1
          IN <<idx % img.width, idx \div img.width>>]

\* the same loop when the entries of the stack are taken in any order (any
\* order of pushing the four neighbours, any order of popping): the next
\* pixel to join is any entry that passes the two `continue`s.  An entry
\* that does not pass them never will (visited only grows), so the stack
\* is kept as the list of the entries that still can
FillStepAnyOrder ==
    /\ pc = "filling"
    /\ LET J == {k \in 1 .. Len(stack) :
                    Joins(image, edgeMask, visited, targetColor, stack[k])}
       IN IF J = {}
          THEN /\ stack' = <<>>
               /\ pc' = "seeding"
               /\ UNCHANGED <<visited, isBackground, cost>>
          ELSE \E k \in J :
                  LET x == stack[k][1]
                      y == stack[k][2]
                      idx == y * image.width + x
                  IN /\ visited' = [visited EXCEPT ![idx] = 1]
                     /\ isBackground' = [isBackground EXCEPT ![idx] = 1]
                     /\ stack' = Candidates(image, edgeMask, visited', targetColor,
                                     PushNeighbors(stack, x, y))
                     /\ cost' = [cost EXCEPT !.marks = @ + 1, !.pushes = @ + 4]
                     /\ pc' = "filling"
    /\ UNCHANGED <<image, edgeMask, maskData, bgColor, seedPos, targetColor,
                   fillBase, prevRuns, calls>>
    /\ UNCHANGED <<appVars, edVars, spent, call>>

\* the seeding loops run out; Step 4 writes the mask
CreateFinalMask ==
    /\ pc = "seeding"
    /\ OpenSeeds(image, visited, seedPos) = {}
    /\ maskData' = CreateMask(maskData, isBackground)
    /\ seedPos' = NumSeeds(image)
    /\ pc' = "done"
    /\ UNCHANGED <<image, edgeMask, visited, isBackground, bgColor, stack,
                   targetColor, fillBase, cost,
                   prevRuns, calls>>
    /\ UNCHANGED <<appVars, edVars, spent, call>>

\* an internal fault of the run (a canvas without context, getImageData or
\* an allocation that throws): the catch of removeBackground logs it and
\* throws the generic error; the locals of the run are left behind
Throw ==
    /\ pc \in {"seeding", "filling"}
    /\ pc' = "failed"
    /\ UNCHANGED <<image, edgeMask, visited, isBackground, maskData, bgColor,
                   seedPos, stack, targetColor, fillBase, cost,
                   prevRuns, calls>>
    /\ UNCHANGED <<appVars, edVars, spent, call>>

\* the message of the error removeBackground throws from its catch, as the
\* App keeps it in processingError (a record, to be comparable with Null)
FailureMessage == [message |-> "Failed to process image. Please try again."]

\* -------------------------------------------------- App: generateResultImage
\* variant: the colour channels are premultiplied by the alpha
GenerateResultImagePremultiplied(img, mask) ==
    [width |-> img.width, height |-> img.height,
     data |-> [k \in 0 .. (img.width * img.height * 4 - 1) |->
                 IF (k \div 4) \in DOMAIN mask
                 THEN IF k % 4 = 3 THEN mask[k \div 4]
                      ELSE (Data(img, k) * mask[k \div 4]) \div 255
                 ELSE 0]]

\* lines 55-65: createImageData is transparent black; the loop runs over
\* maskData.length; a typed-array write outside the buffer is dropped
GenerateResultImage(img, mask) ==
    [width |-> img.width, height |-> img.height,
     data |-> [k \in 0 .. (img.width * img.height * 4 - 1) |->
                 IF (k \div 4) \in DOMAIN mask
                 THEN IF k % 4 = 3 THEN mask[k \div 4] ELSE Data(img, k)
                 ELSE 0]]

\* --------------------------------------------- ManualEditor: applyBrushStroke
\* Math.round of a quarter-pixel value v (v/4): floor(v/4 + 1/2)
Round4(v) == (v + 2) \div 4

BrushValue(mode) == IF mode = "remove" THEN 0 ELSE 255

\* the offsets of the two for loops: -radius, -radius+1, ... while <= radius,
\* in quarter pixels (radius = size/2 is 2*size quarters)
BrushOffsets(size) == {4 * k - 2 * size : k \in 0 .. size}

\* variant: only the flat index is tested, not the coordinates
StrokeTargetsWrapped(len, w, h, x, y, size) ==
    {Round4(y + o[2]) * w + Round4(x + o[1]) :
        o \in {d \in BrushOffsets(size) \X BrushOffsets(size) :
                 Sq(d[1]) + Sq(d[2]) <= Sq(2 * size)}}
    \cap (0 .. (len - 1))

\* the indices written by lines 127-143 for a stroke at (x, y) (quarter pixels)
StrokeTargets(len, w, h, x, y, size) ==
    {ty * w + tx :
        <<tx, ty>> \in
            {<<Round4(x + o[1]), Round4(y + o[2])>> :
                o \in {d \in BrushOffsets(size) \X BrushOffsets(size) :
                         Sq(d[1]) + Sq(d[2]) <= Sq(2 * size)}}
            \cap ((0 .. (w - 1)) \X (0 .. (h - 1)))}
    \cap (0 .. (len - 1))

\* variant: a soft eraser that halves the value instead of overwriting it
ApplyBrushStrokeSoft(mask, w, h, x, y, size, mode) ==
    LET T == StrokeTargets(Cardinality(DOMAIN mask), w, h, x, y, size)
    IN [i \in DOMAIN mask |->
          IF i \in T THEN (IF mode = "remove" THEN mask[i] \div 2 ELSE 255)
          ELSE mask[i]]

ApplyBrushStroke(mask, w, h, x, y, size, mode) ==
    LET T == StrokeTargets(Cardinality(DOMAIN mask), w, h, x, y, size)
    IN [i \in DOMAIN mask |-> IF i \in T THEN BrushValue(mode) ELSE mask[i]]

\* ------------------------------------------------------------- input sets
\* a queued setState(v) is <<v>>, none queued is <<>>
NoUpdate == [isDrawing |-> <<>>, showCursor |-> <<>>, currentMask |-> <<>>]

\* pointer positions of getMousePos, in quarter pixels: the pixel centre
\* (4, 4) and the position (0.5, 0.25) at the canvas corner
Positions == {<<16, 16>>, <<2, 1>>}
BrushSizes == {minBrush, minBrush + 1}
EditModes == {"remove", "restore"}

EditImages ==
    {BoxImage(EditW, EditH, White, Black, Black, <<3, 3, 5, 4>>, 4, 4)}

\* the images segmented in SpecSeg.  With a band of 5 the only pixels that
\* are not seeds themselves are the middle ones, from (5,5) on
SegImages ==
    {UniformImage(MaxW, MaxH, White),
     \* a high-contrast box: its outline is edges, its inside is cut off
     BoxImage(MaxW, MaxH, White, Black, Black, <<4, 4, MaxW - 5, MaxH - 5>>, 5, 5),
     \* the tolerance, inclusive: 35 joins, 36 does not
     BoxImage(MaxW, MaxH, Black, <<35, 0, 0>>, <<36, 0, 0>>, <<5, 5, 5, 5>>, 6, 5),
     \* (6,5) is within 35 of its neighbour (5,5) but not of the seed's colour
     BoxImage(MaxW, MaxH, Black, <<20, 20, 20>>, <<36, 0, 0>>, <<5, 5, 5, 5>>, 6, 5),
     \* the edge threshold, exclusive: 40 is no edge, 41 is
     BoxImage(MaxW, MaxH, Black, <<40, 0, 0>>, <<41, 0, 0>>, <<5, 5, 5, 5>>, 6, 5),
     RampImage(MaxW, MaxH, 20),
     \* smaller than the band: the seeding loops leave the image
     BoxImage(3, 3, White, Black, Black, <<1, 1, 1, 1>>, 1, 1),
     \* a 4x4 image of solid white
     UniformImage(4, 4, White),
     \* a 10x10 white image with a 2x2 black square at its centre
     BoxImage(10, 10, White, Black, Black, <<4, 4, 5, 5>>, 4, 4),
     \* a ramp so steep that every interior pixel is an edge
     RampImage(MaxW, MaxH, 50),
     \* a band pixel that is no edge (40) and joins no neighbour's fill
     BoxImage(MaxW, MaxH, Black, <<40, 0, 0>>, <<40, 0, 0>>, <<2, 2, 2, 2>>, 2, 2)}

\* ------------------------------------------------------ ManualEditor: state
Shown(show, res, msk, orig) ==
    show /\ res # Null /\ msk # Null /\ orig # Null

\* useState initial values at mount (lines 27-31); the editor appears on a
\* click of the Show button, so the pointer is not on its canvas
Mount ==
    /\ mounted' = TRUE
    /\ isDrawing' = FALSE
    /\ editMode' = "remove"
    /\ brushSize' = defaultBrush
    /\ edCurrentMask' = currentMask'
    /\ propMask' = currentMask'
    /\ showCursor' = FALSE
    /\ overlay' = Null
    /\ pending' = NoUpdate
    /\ pointerOver' = FALSE
    /\ strokes' = <<>>
    /\ lastEvent' = Null

Unmount ==
    /\ mounted' = FALSE
    /\ isDrawing' = FALSE
    /\ editMode' = "remove"
    /\ brushSize' = defaultBrush
    /\ edCurrentMask' = Null
    /\ propMask' = Null
    /\ showCursor' = FALSE
    /\ overlay' = Null
    /\ pending' = NoUpdate
    /\ pointerOver' = FALSE
    /\ strokes' = <<>>
    /\ lastEvent' = Null

\* the App's render after one of its own state changes: lines 335-343
EditorSync ==
    IF Shown(showManualEditor', result', currentMask', original') /\ ~mounted
    THEN Mount
    ELSE IF ~Shown(showManualEditor', result', currentMask', original') /\ mounted
    THEN Unmount
    ELSE UNCHANGED edVars

\* a render of the editor: the queued updates q take effect, then the effect
\* of lines 57-59 runs when the maskData prop changed
Commit(q) ==
    /\ isDrawing' = IF q.isDrawing = <<>> THEN isDrawing ELSE q.isDrawing[1]
    /\ showCursor' = IF q.showCursor = <<>> THEN showCursor ELSE q.showCursor[1]
    /\ edCurrentMask' =
          IF currentMask' # propMask THEN currentMask'
          ELSE IF q.currentMask = <<>> THEN edCurrentMask ELSE q.currentMask[1]
    /\ propMask' = currentMask'
    /\ pending' = NoUpdate

Idle == ~isDrawing /\ ~showCursor
Hover == ~isDrawing /\ showCursor
Drawing == isDrawing

StrokeRec(x, y) == [x |-> x, y |-> y, size |-> brushSize, mode |-> editMode]

\* ------------------------------------------------------ App: handleMaskUpdate
\* variant: the mask is stored but no cutout is regenerated
HandleMaskUpdateStoreOnly(newMask) ==
    IF original = Null
    THEN UNCHANGED <<currentMask, loads>>
    ELSE /\ currentMask' = newMask
         /\ UNCHANGED loads

\* lines 71-82: the mask is stored and an image load is started
HandleMaskUpdate(newMask) ==
    IF original = Null
    THEN UNCHANGED <<currentMask, loads>>
    ELSE /\ currentMask' = newMask
         /\ loads' = loads \cup {[img |-> original, mask |-> newMask]}

\* applyBrushStroke(x, y), lines 123-147, on the mask of the last render
NewMask(x, y) ==
    ApplyBrushStroke(edCurrentMask, original.width, original.height,
                     x, y, brushSize, editMode)

\* the record of a pointer event: its type and the state it was handled in
Event(type) == [type |-> type, isDrawing |-> isDrawing, showCursor |-> showCursor]

CanStroke == spent < MaxStrokes

EditorReady == mounted /\ pc \in {"idle", "done"}

\* ------------------------------------------------- ManualEditor: handlers
\* variant: mousedown is rendered later, like a continuous event
MouseDownDeferred(x, y) ==
    /\ EditorReady /\ pointerOver /\ CanStroke
    /\ HandleMaskUpdate(NewMask(x, y))
    /\ pending' = [pending EXCEPT !.isDrawing = <<TRUE>>,
                                   !.currentMask = <<NewMask(x, y)>>]
    /\ strokes' = Append(strokes, StrokeRec(x, y))
    /\ spent' = spent + 1
    /\ lastEvent' = Event("down")
    /\ UNCHANGED <<mounted, isDrawing, editMode, brushSize, edCurrentMask,
                   showCursor, overlay, propMask, pointerOver>>
    /\ UNCHANGED <<ready, original, result, processing, processingError, showManualEditor>>
    /\ UNCHANGED <<segVars, call>>

\* handleMouseDown, lines 150-154 (a discrete event: rendered at once)
MouseDown(x, y) ==
    /\ EditorReady /\ pointerOver
    /\ HandleMaskUpdate(NewMask(x, y))
    /\ Commit([pending EXCEPT !.isDrawing = <<TRUE>>, !.currentMask = <<NewMask(x, y)>>])
    /\ strokes' = Append(strokes, StrokeRec(x, y))
    /\ spent' = spent + 1
    /\ lastEvent' = Event("down")
    /\ UNCHANGED <<mounted, editMode, brushSize, overlay, pointerOver>>
    /\ UNCHANGED <<ready, original, result, processing, processingError, showManualEditor>>
    /\ UNCHANGED <<segVars, call>>

\* drawCursor(x, y), lines 84-105: the overlay after the call
DrawCursor(x, y) ==
    IF showCursor THEN [x |-> x, y |-> y] ELSE Null

\* variant: the move paints whether or not isDrawing is set
MouseMoveAlways(x, y) ==
    /\ EditorReady /\ pointerOver /\ CanStroke
    /\ lastEvent' = Event("move")
    /\ overlay' = DrawCursor(x, y)
    /\ HandleMaskUpdate(NewMask(x, y))
    /\ pending' = [pending EXCEPT !.currentMask = <<NewMask(x, y)>>]
    /\ strokes' = Append(strokes, StrokeRec(x, y))
    /\ spent' = spent + 1
    /\ UNCHANGED <<mounted, isDrawing, editMode, brushSize, edCurrentMask,
                   showCursor, propMask, pointerOver>>
    /\ UNCHANGED <<ready, original, result, processing, processingError, showManualEditor>>
    /\ UNCHANGED <<segVars, call>>

\* handleMouseMove, lines 156-163 (a continuous event: rendered later)
MouseMove(x, y) ==
    /\ EditorReady /\ pointerOver
    /\ lastEvent' = Event("move")
    /\ overlay' = DrawCursor(x, y)
    /\ IF isDrawing
       THEN /\ HandleMaskUpdate(NewMask(x, y))
            /\ pending' = [pending EXCEPT !.currentMask = <<NewMask(x, y)>>]
            /\ strokes' = Append(strokes, StrokeRec(x, y))
            /\ spent' = spent + 1
       ELSE UNCHANGED <<currentMask, loads, pending, strokes, spent>>
    /\ UNCHANGED <<mounted, isDrawing, editMode, brushSize, edCurrentMask,
                   showCursor, propMask, pointerOver>>
    /\ UNCHANGED <<ready, original, result, processing, processingError, showManualEditor>>
    /\ UNCHANGED <<segVars, call>>

\* variant: mouseup does not clear isDrawing
MouseUpIgnored ==
    /\ EditorReady /\ pointerOver
    /\ UNCHANGED <<appVars, segVars, spent, call>>
    /\ Commit(pending)
    /\ lastEvent' = Event("up")
    /\ UNCHANGED <<mounted, editMode, brushSize, overlay, pointerOver, strokes>>

\* handleMouseUp, lines 165-167 (discrete)
MouseUp ==
    /\ EditorReady /\ pointerOver
    /\ UNCHANGED <<appVars, segVars, spent, call>>
    /\ Commit([pending EXCEPT !.isDrawing = <<FALSE>>])
    /\ lastEvent' = Event("up")
    /\ UNCHANGED <<mounted, editMode, brushSize, overlay, pointerOver, strokes>>

\* handleMouseEnter, lines 169-171 (continuous)
MouseEnter ==
    /\ EditorReady /\ ~pointerOver
    /\ pointerOver' = TRUE
    /\ lastEvent' = Event("enter")
    /\ pending' = [pending EXCEPT !.showCursor = <<TRUE>>]
    /\ UNCHANGED <<mounted, isDrawing, editMode, brushSize, edCurrentMask,
                   showCursor, overlay, propMask, strokes>>
    /\ UNCHANGED <<appVars, segVars, spent, call>>

\* handleMouseLeave, lines 173-181 (continuous)
MouseLeave ==
    /\ EditorReady /\ pointerOver
    /\ pointerOver' = FALSE
    /\ lastEvent' = Event("leave")
    /\ pending' = [pending EXCEPT !.showCursor = <<FALSE>>, !.isDrawing = <<FALSE>>]
    /\ overlay' = Null
    /\ UNCHANGED <<mounted, isDrawing, editMode, brushSize, edCurrentMask,
                   showCursor, propMask, strokes>>
    /\ UNCHANGED <<appVars, segVars, spent, call>>

\* the render React scheduled after a continuous event or a prop change
Render ==
    /\ EditorReady
    /\ UNCHANGED <<appVars, segVars, spent, call>>
    /\ pending # NoUpdate \/ propMask # currentMask
    /\ Commit(pending)
    /\ UNCHANGED <<mounted, editMode, brushSize, overlay, pointerOver, strokes, lastEvent>>

\* the mode buttons, lines 187-198 (click: discrete)
SetEditMode(m) ==
    /\ EditorReady /\ ~pointerOver
    /\ UNCHANGED <<appVars, segVars, spent, call>>
    /\ editMode' = m
    /\ Commit(pending)
    /\ UNCHANGED <<mounted, brushSize, overlay, pointerOver, strokes, lastEvent>>

\* the brush slider, lines 203-211 (change: discrete)
SetBrushSize(n) ==
    /\ EditorReady /\ ~pointerOver
    /\ UNCHANGED <<appVars, segVars, spent, call>>
    /\ brushSize' = n
    /\ Commit(pending)
    /\ UNCHANGED <<mounted, editMode, overlay, pointerOver, strokes, lastEvent>>

\* ------------------------------------------------------------ App: handlers
\* the App's buttons lie outside the editor's canvas: the pointer is not on it
AppReady == pc \in {"idle", "done"} /\ ~processing
ButtonReady == AppReady /\ ~pointerOver

\* useRmbg's progress timer reaches 100: setReady(true)
ModelReady ==
    /\ ~ready /\ AppReady
    /\ ready' = TRUE
    /\ UNCHANGED <<original, result, processing, processingError,
                   showManualEditor, currentMask, loads>>
    /\ UNCHANGED <<segVars, edVars, spent, call>>

\* processImageFile(file), lines 84-110, up to the call of removeBackground:
\* an upload when no image is shown, or Try Again on the shown one
ProcessImageFile(img) ==
    /\ AppReady
    /\ original = Null \/ (processingError # Null /\ img = original)
    /\ original' = img
    /\ result' = Null
    /\ processingError' = Null
    /\ UNCHANGED <<ready, showManualEditor, currentMask, loads, spent, call>>
    /\ IF ready
       THEN /\ processing' = TRUE
            /\ StartRun(img)
       ELSE /\ processing' = FALSE
            /\ UNCHANGED segVars
    /\ EditorSync

\* processImageFile after `await removeBackground(img)`, lines 112-123
ProcessDone ==
    /\ pc = "done" /\ processing
    /\ currentMask' = maskData
    /\ result' = GenerateResultImage(image, maskData)
    /\ processing' = FALSE
    /\ UNCHANGED <<ready, original, processingError, showManualEditor, loads>>
    /\ UNCHANGED <<segVars, spent, call>>
    /\ EditorSync

\* variant: a fault keeps what the run had classified so far as the mask
ProcessFailedBestEffort ==
    /\ pc = "failed" /\ processing
    /\ currentMask' = CreateMask(maskData, isBackground)
    /\ result' = GenerateResultImage(image, CreateMask(maskData, isBackground))
    /\ processingError' = FailureMessage
    /\ processing' = FALSE
    /\ pc' = "idle"
    /\ UNCHANGED <<image, edgeMask, visited, isBackground, maskData, bgColor,
                   seedPos, stack, targetColor, fillBase, cost,
                   prevRuns, calls>>
    /\ UNCHANGED <<ready, original, showManualEditor, loads>>
    /\ UNCHANGED <<spent, call>>
    /\ EditorSync

\* processImageFile when `await removeBackground(img)` rejects: the catch
\* and the finally of lines 118-123
ProcessFailed ==
    /\ pc = "failed" /\ processing
    /\ processingError' = FailureMessage
    /\ processing' = FALSE
    /\ pc' = "idle"
    /\ UNCHANGED <<image, edgeMask, visited, isBackground, maskData, bgColor,
                   seedPos, stack, targetColor, fillBase, cost,
                   prevRuns, calls>>
    /\ UNCHANGED <<ready, original, result, showManualEditor, currentMask, loads>>
    /\ UNCHANGED <<spent, call>>
    /\ EditorSync

\* the Show/Hide Manual Editor button, lines 320-325
ToggleManualEditor ==
    /\ ButtonReady /\ original # Null /\ result # Null
    /\ showManualEditor' = ~showManualEditor
    /\ UNCHANGED <<ready, original, result, processing, processingError,
                   currentMask, loads>>
    /\ UNCHANGED <<segVars, spent, call>>
    /\ EditorSync

\* img.onload of handleMaskUpdate, lines 78-80, for one pending load
LoadDone(l) ==
    /\ AppReady
    /\ l \in loads
    /\ loads' = loads \ {l}
    /\ result' = GenerateResultImage(l.img, l.mask)
    /\ UNCHANGED <<ready, original, processing, processingError,
                   showManualEditor, currentMask>>
    /\ UNCHANGED <<segVars, spent, call>>
    /\ EditorSync

\* reset, lines 167-179
Reset ==
    /\ ButtonReady /\ original # Null
    /\ original' = Null
    /\ result' = Null
    /\ currentMask' = Null
    /\ showManualEditor' = FALSE
    /\ processingError' = Null
    /\ UNCHANGED <<ready, processing, loads>>
    /\ UNCHANGED <<segVars, spent, call>>
    /\ EditorSync

\* ------------------------------------------------------------ specification
InitSeg ==
    /\ pc = "idle" /\ image = Null /\ edgeMask = Null /\ visited = Null
    /\ isBackground = Null /\ maskData = Null /\ bgColor = Null /\ seedPos = 0
    /\ stack = <<>> /\ targetColor = Null /\ fillBase = Null
    /\ cost = [fills |-> 0, marks |-> 0, pushes |-> 0]
    /\ prevRuns = {} /\ calls = 0

InitApp ==
    /\ ready = FALSE /\ original = Null /\ result = Null
    /\ processing = FALSE /\ processingError = Null
    /\ showManualEditor = FALSE /\ currentMask = Null /\ loads = {}

InitEditor ==
    /\ mounted = FALSE /\ isDrawing = FALSE /\ editMode = "remove"
    /\ brushSize = defaultBrush /\ edCurrentMask = Null /\ propMask = Null
    /\ showCursor = FALSE /\ overlay = Null /\ pending = NoUpdate
    /\ pointerOver = FALSE /\ strokes = <<>> /\ lastEvent = Null

Init == InitSeg /\ InitApp /\ InitEditor /\ spent = 0 /\ call = Null

\* in Spec the image of a stroke has loaded before the next user event
Settled == loads = {}

Next ==
    \/ ModelReady
    \/ StartFill
    \/ FillStep
    \/ CreateFinalMask
    \/ ProcessDone
    \/ \E l \in loads : LoadDone(l)
    \/ Render
    \/ Settled /\ calls < MaxUploads /\ \E img \in EditImages : ProcessImageFile(img)
    \/ Settled /\ ToggleManualEditor
    \/ Settled /\ Reset
    \/ Settled /\ CanStroke /\ \E p \in Positions : MouseDown(p[1], p[2])
    \/ Settled /\ (isDrawing => CanStroke) /\ \E p \in Positions : MouseMove(p[1], p[2])
    \/ Settled /\ MouseUp
    \/ Settled /\ MouseEnter
    \/ Settled /\ MouseLeave
    \/ Settled /\ \E m \in EditModes : SetEditMode(m)
    \/ Settled /\ \E n \in BrushSizes : SetBrushSize(n)

Spec == Init /\ [][Next]_vars

\* ---- the App over several uploads, with runs that may fail and with image
\* loads that complete at any time, in any order; the user draws by
\* pointer-downs with the default brush
SessionImages ==
    EditImages \cup {BoxImage(3, 3, White, Black, Black, <<1, 1, 1, 1>>, 1, 1)}

NextApp ==
    \/ ModelReady
    \/ StartFill
    \/ FillStep
    \/ CreateFinalMask
    \/ Throw
    \/ ProcessDone
    \/ ProcessFailed
    \/ \E l \in loads : LoadDone(l)
    \/ Render
    \/ calls < MaxRuns /\ \E img \in SessionImages : ProcessImageFile(img)
    \/ ToggleManualEditor
    \/ Reset
    \/ MouseEnter
    \/ CanStroke /\ \E p \in Positions : MouseDown(p[1], p[2])
    \/ MouseLeave

SpecApp == Init /\ [][NextApp]_vars

\* ---- one editing session on one image: the editor is shown once, the user
\* picks the restore mode and the smallest brush before drawing, and then
\* presses, drags and releases; renders and image loads come at any time,
\* the loads in any order
NextDraw ==
    \/ ModelReady
    \/ StartFill
    \/ FillStep
    \/ CreateFinalMask
    \/ ProcessDone
    \/ \E l \in loads : LoadDone(l)
    \/ Render
    \/ calls < MaxUploads /\ ready /\ \E img \in EditImages : ProcessImageFile(img)
    \/ ~showManualEditor /\ ToggleManualEditor
    \/ spent = 0 /\ editMode = "remove" /\ SetEditMode("restore")
    \/ spent = 0 /\ brushSize = defaultBrush /\ SetBrushSize(minBrush)
    \/ MouseEnter
    \/ spent < MaxDrawStrokes /\ \E p \in Positions : MouseDown(p[1], p[2])
    \/ (isDrawing => spent < MaxDrawStrokes)
          /\ \E p \in Positions : MouseMove(p[1], p[2])
    \/ MouseUp

SpecDraw == Init /\ [][NextDraw]_vars

\* ---- removeBackground alone, called again and again on a family of images
CallRemoveBackground(img) ==
    /\ calls < MaxCalls
    /\ StartRun(img)
    /\ UNCHANGED <<appVars, edVars, spent, call>>

NextSeg ==
    \/ \E img \in SegImages : CallRemoveBackground(img)
    \/ StartFill
    \/ FillStep
    \/ CreateFinalMask

SpecSeg == Init /\ [][NextSeg]_vars

\* ---- removeBackground on small images, the stack of floodFill being taken
\* in the code's order or in any other
FillImages ==
    {\* a ramp: each column is within 35 of the next one, not of the one after
     RampImage(4, 4, 20),
     \* a black pixel on white: edges
     BoxImage(4, 4, White, Black, Black, <<1, 1, 1, 1>>, 1, 1),
     \* the tolerance, inclusive: 35 joins a black seed's fill, 36 does not
     BoxImage(4, 4, Black, <<35, 0, 0>>, <<36, 0, 0>>, <<1, 1, 1, 1>>, 2, 1)}

NextFill ==
    \/ \E img \in FillImages : CallRemoveBackground(img)
    \/ StartFill
    \/ FillStep
    \/ FillStepAnyOrder
    \/ CreateFinalMask

SpecFill == Init /\ [][NextFill]_vars

\* ---- removeBackground on small images with the scheduling of the code: removeBackground is one
\* synchronous function, so a run that has begun takes its next step (the
\* next seed test, the next iteration of the while loop, Step 4) until it
\* returns; nothing obliges a caller to call again
runVars == <<pc, seedPos, stack, visited>>

TermImages ==
    FillImages
    \cup {\* one pixel: every seed test but the first is outside the image
          UniformImage(1, 1, White),
          \* edges in the band: floodFill calls that mark nothing
          BoxImage(5, 3, White, Black, Black, <<2, 1, 2, 1>>, 2, 1)}

NextTerm ==
    \/ \E img \in TermImages : CallRemoveBackground(img)
    \/ StartFill
    \/ FillStep
    \/ CreateFinalMask

SpecSegFair ==
    /\ Init /\ [][NextTerm]_vars
    /\ WF_runVars(StartFill) /\ WF_runVars(FillStep) /\ WF_runVars(CreateFinalMask)

\* ---- generateResultImage and applyBrushStroke called directly, with an
\* image and a mask of any length; both are pure, so a behaviour of
\* SpecCalls makes one call
CallImages ==
    {UniformImage(2, 2, White), UniformImage(2, 1, <<35, 0, 0>>)}

CallMasks == UNION {[0 .. (n - 1) -> {0, 255}] : n \in 1 .. MaxMaskLen}

\* App.tsx lines 40-69: no length is compared and nothing is thrown
CallGenerateResultImage(img, mask) ==
    /\ call = Null
    /\ call' = [op |-> "generateResultImage", img |-> img, mask |-> mask,
                threw |-> FALSE, out |-> GenerateResultImage(img, mask)]
    /\ UNCHANGED <<segVars, appVars, edVars, spent>>

\* ManualEditor.tsx lines 123-147 with the props width, height of img and
\* the state currentMask = mask: the write is skipped outside the mask
CallApplyBrushStroke(img, mask, x, y, size, mode) ==
    /\ call = Null
    /\ call' = [op |-> "applyBrushStroke", img |-> img, mask |-> mask,
                x |-> x, y |-> y, size |-> size, mode |-> mode,
                threw |-> FALSE,
                out |-> ApplyBrushStroke(mask, img.width, img.height, x, y, size, mode)]
    /\ UNCHANGED <<segVars, appVars, edVars, spent>>

\* centres on the canvas, beside it ((-1, 0.5): the circle straddles the
\* border) and far from it; a brush of the smallest size, of radius 0 and
\* of negative radius
CallPositions == Positions \cup {<<-4, 2>>, <<4, 40>>}
CallSizes == {minBrush, 0, -2}

NextCalls ==
    \/ \E img \in CallImages, mask \in CallMasks : CallGenerateResultImage(img, mask)
    \/ \E img \in CallImages, mask \in CallMasks, p \in CallPositions,
          n \in CallSizes, m \in EditModes :
          CallApplyBrushStroke(img, mask, p[1], p[2], n, m)

SpecCalls == Init /\ [][NextCalls]_vars

\* ================================================================ properties
TwoValued(m) == \A i \in DOMAIN m : m[i] \in {0, 255}
HasBoth(m) == (\E i \in DOMAIN m : m[i] = 0) /\ (\E i \in DOMAIN m : m[i] = 255)

\* C1: every mask holds only the values 0 and 255: the mask a finished
\* removeBackground run returns, and every mask that brush strokes make of
\* it (the editor's, the one queued for the next render, the one published
\* to the App and the ones handed to the image loads).
C1_MasksAreBinary ==
    /\ pc = "done" => TwoValued(maskData)
    /\ TwoValued(currentMask)
    /\ TwoValued(edCurrentMask)
    /\ TwoValued(propMask)
    /\ pending.currentMask # <<>> => TwoValued(pending.currentMask[1])
    /\ \A l \in loads : TwoValued(l.mask)

\* an erase and a restore stroke have been applied to a segmented mask
C1_Witness ==
    /\ pc = "done" /\ mounted /\ HasBoth(maskData) /\ HasBoth(currentMask)
    /\ currentMask # maskData
    /\ \E j, k \in 1 .. Len(strokes) :
          strokes[j].mode = "remove" /\ strokes[k].mode = "restore"

AlphaOf(res) == [p \in 0 .. (res.width * res.height - 1) |-> res.data[4 * p + 3]]

Adjacent(img, p, q) ==
    LET px == p % img.width
        py == p \div img.width
        qx == q % img.width
        qy == q \div img.width
    IN \/ px = qx /\ (py = qy + 1 \/ qy = py + 1)
       \/ py = qy /\ (px = qx + 1 \/ qx = px + 1)

\* the pixels of the border band of width borderWidth
BandPixels(img) ==
    {p \in Pixels(img) :
        LET x == p % img.width
            y == p \div img.width
        IN \/ x < borderWidth \/ x >= img.width - borderWidth
           \/ y < borderWidth \/ y >= img.height - borderWidth}

RECURSIVE Grow(_, _, _)
Grow(img, ok, S) ==
    LET N == {q \in ok \ S : \E p \in S : Adjacent(img, p, q)}
    IN IF N = {} THEN S ELSE Grow(img, ok, S \cup N)

\* the pixels joined to a non-edge band pixel of colour c by a 4-connected
\* path of non-edge pixels within colorTolerance of c
ReachedWith(img, edges, c) ==
    LET ok == {q \in Pixels(img) :
                 edges[q] = 0 /\ Distance2(img, q, c) <= Sq(colorTolerance)}
    IN Grow(img, ok, {s \in BandPixels(img) \cap ok : img.px[s] = c})

BorderReached(img) ==
    LET edges == CreateEdgeMask(img)
    IN UNION {ReachedWith(img, edges, c) : c \in {img.px[s] : s \in BandPixels(img)}}

\* C4: after a run every pixel with mask 0 is border-reached: it is a
\* non-edge pixel of the 5-pixel band, or a 4-connected path of non-edge
\* pixels, all within distance 35 of the colour of a band pixel, joins it to
\* that band pixel; every pixel that is not border-reached has mask 255.
C4_BackgroundIsBorderReached ==
    pc = "done" =>
        LET R == BorderReached(image)
        IN \A p \in Pixels(image) :
              /\ maskData[p] = 0 => p \in R
              /\ p \notin R => maskData[p] = 255

\* outside the band one pixel was reached by a path and another was not
C4_Witness ==
    /\ pc = "done"
    /\ \E p, q \in Pixels(image) \ BandPixels(image) :
          maskData[p] = 0 /\ maskData[q] = 255

\* ---- strokes: the last record of `strokes` describes the stroke of a step
\* that lengthens it; the stroke was applied to edCurrentMask (the mask of
\* the last render) and its outcome is currentMask' (the published mask)
StrokeStep == Len(strokes') = Len(strokes) + 1
LastStroke == strokes'[Len(strokes')]

\* the squared distance, in quarter pixels, of pixel i from the point (x, y)
Dist2Q(w, i, x, y) == Sq(4 * (i % w) - x) + Sq(4 * (i \div w) - y)

\* C5: a stroke with centre (x, y) and radius brushSize/2 sets every pixel
\* of the image at distance at most the radius from the centre to 0 (erase)
\* or 255 (restore) and leaves every pixel farther away as it was.
C5_StrokeIsTheDisc ==
    [][StrokeStep =>
          \A i \in DOMAIN edCurrentMask :
             IF Dist2Q(original.width, i, LastStroke.x, LastStroke.y)
                    <= Sq(2 * LastStroke.size)
             THEN currentMask'[i] = BrushValue(LastStroke.mode)
             ELSE currentMask'[i] = edCurrentMask[i]]_vars

\* C6: an erase stroke repeated on its own outcome changes nothing: when a
\* step applies the erase stroke that was applied last, to the mask that
\* one left, the mask stays the same.
C6_EraseIsIdempotent ==
    [][/\ StrokeStep /\ strokes # <<>>
       /\ LastStroke = strokes[Len(strokes)]
       /\ LastStroke.mode = "remove"
       /\ edCurrentMask = currentMask
       => currentMask' = currentMask /\ edCurrentMask' = edCurrentMask]_vars

\* the same erase stroke was applied by two pointer-downs in a row, on a
\* mask that still has foreground
C6_Witness ==
    /\ Len(strokes) = 2 /\ strokes[1] = strokes[2]
    /\ strokes[2].mode = "remove"
    /\ lastEvent # Null /\ lastEvent.type = "down"
    /\ edCurrentMask = currentMask /\ currentMask # maskData
    /\ HasBoth(currentMask)

\* C7: a composite or stroke call whose mask length differs from
\* width*height of the image fails with an error and yields no output.
C7_SizeMismatchIsRejected ==
    call # Null /\ Cardinality(DOMAIN call.mask) # call.img.width * call.img.height
        => call.threw /\ call.out = Null

\* C8: a pointer-down handled while isDrawing is false sets isDrawing and
\* applies one stroke at once, at the pointer position, in the current
\* mode and brush size: the editor's mask and the published mask are the
\* previous mask with that one stroke applied.
C8_DownStartsDrawingWithOneStroke ==
    [][\A p \in Positions :
          MouseDown(p[1], p[2]) /\ ~isDrawing =>
             /\ isDrawing'
             /\ strokes' = Append(strokes, [x |-> p[1], y |-> p[2],
                                            size |-> brushSize, mode |-> editMode])
             /\ edCurrentMask' = ApplyBrushStroke(edCurrentMask, original.width,
                                     original.height, p[1], p[2], brushSize, editMode)
             /\ currentMask' = edCurrentMask']_vars

\* a pointer-down in Hover has started Drawing and changed the mask
C8_Witness ==
    /\ lastEvent # Null /\ lastEvent.type = "down"
    /\ ~lastEvent.isDrawing /\ lastEvent.showCursor
    /\ isDrawing /\ Len(strokes) = 1 /\ edCurrentMask # maskData

\* C9: a pointer-move applies a stroke exactly when isDrawing is set: then
\* one stroke at the move position is applied to the mask and published;
\* otherwise the mask, the queued updates, the published mask and the image
\* loads stay as they are and only the cursor preview follows the pointer.
C9_MoveStrokesIffDrawing ==
    [][\A p \in Positions :
          MouseMove(p[1], p[2]) =>
             IF isDrawing
             THEN /\ strokes' = Append(strokes, [x |-> p[1], y |-> p[2],
                                            size |-> brushSize, mode |-> editMode])
                  /\ currentMask' = ApplyBrushStroke(edCurrentMask, original.width,
                                        original.height, p[1], p[2], brushSize, editMode)
                  /\ pending'.currentMask = <<currentMask'>>
             ELSE /\ UNCHANGED <<strokes, edCurrentMask, currentMask, pending, loads>>
                  /\ showCursor => overlay' = [x |-> p[1], y |-> p[2]]]_vars

\* a move while Drawing has changed the published mask
C9_Witness ==
    /\ lastEvent # Null /\ lastEvent.type = "move" /\ lastEvent.isDrawing
    /\ Len(strokes) = 2 /\ pending.currentMask = <<currentMask>>
    /\ currentMask # edCurrentMask

\* C10, as stated: a pointer-up while Drawing leaves the editor in Idle,
\* with isDrawing and showCursor both false.
C10_UpGoesToIdle ==
    [][MouseUp /\ isDrawing => ~isDrawing' /\ ~showCursor']_vars

\* C10, amended: a pointer-up while Drawing leaves the editor in Hover
\* (isDrawing false, showCursor true: the pointer is still on the canvas)
\* with the mask untouched, and as long as isDrawing is false only a
\* pointer-down sets it or applies a stroke.
C10_UpGoesToHover ==
    [][/\ MouseUp /\ isDrawing =>
             /\ ~isDrawing' /\ showCursor'
             /\ UNCHANGED <<strokes, currentMask>>
       /\ ~isDrawing /\ (isDrawing' \/ StrokeStep) =>
             \E p \in Positions : MouseDown(p[1], p[2])]_vars

\* a pointer-up handled while Drawing has left the editor in Hover
C10_Witness ==
    /\ lastEvent # Null /\ lastEvent.type = "up" /\ lastEvent.isDrawing
    /\ Hover /\ pointerOver /\ Len(strokes) = 1
    /\ edCurrentMask = currentMask /\ currentMask # maskData

\* C11: a pointer-leave from any state clears the cursor preview and puts
\* the editor in Idle (isDrawing and showCursor false once the leave has
\* been rendered), and after a leave no stroke is applied, whether or not
\* the pointer has re-entered, until a pointer-down.
C11_LeaveGoesToIdle ==
    /\ [](lastEvent # Null /\ lastEvent.type = "leave" /\ pending = NoUpdate
             => Idle /\ overlay = Null)
    /\ [][/\ MouseLeave => overlay' = Null
          /\ lastEvent # Null /\ lastEvent.type \in {"leave", "enter"} /\ StrokeStep
                => \E p \in Positions : MouseDown(p[1], p[2])]_vars

\* C12: every stroke publishes its mask: in the step that applies a stroke
\* the App's currentMask becomes the stroke's outcome, the editor's own
\* mask (rendered at once after a pointer-down, queued for the next render
\* after a pointer-move) is that same mask, and an image load that will
\* regenerate the cutout from exactly that mask is started.
C12_StrokePublishes ==
    [][StrokeStep =>
          /\ currentMask' = ApplyBrushStroke(edCurrentMask, original.width,
                                original.height, LastStroke.x, LastStroke.y,
                                LastStroke.size, LastStroke.mode)
          /\ edCurrentMask' = currentMask' \/ pending'.currentMask = <<currentMask'>>
          /\ loads' = loads \cup {[img |-> original, mask |-> currentMask']}
          /\ loads' # {}]_vars

\* C13: on the 4x4 image of solid white the border-colour estimate is
\* (255,255,255), although samples of its 10-pixel band are read outside
\* the image; no pixel is an edge, every pixel is marked background and the
\* final mask is 0 at all 16 pixels.
C13_SolidWhite4x4 ==
    pc = "done" /\ image = UniformImage(4, 4, White) =>
        /\ bgColor = White
        /\ Cardinality(DOMAIN maskData) = 16
        /\ \A p \in DOMAIN maskData :
              edgeMask[p] = 0 /\ isBackground[p] = 1 /\ maskData[p] = 0

\* the run on the 4x4 white image has finished; samples of the band were
\* read before the buffer, after it and inside it
C13_Witness ==
    /\ pc = "done" /\ image = UniformImage(4, 4, White) /\ bgColor # Null
    /\ \E s, t, u \in 0 .. (NumBorderSamples(image) - 1) :
          /\ BorderSampleAt(image, s) < 0
          /\ BorderSampleAt(image, t) >= 64
          /\ InBuffer(image, BorderSampleAt(image, u))

\* the 10x10 white image with the black square (4,4), (5,4), (4,5), (5,5)
Square10 == BoxImage(10, 10, White, Black, Black, <<4, 4, 5, 5>>, 4, 4)
SquarePixels == {y * 10 + x : x \in 4 .. 5, y \in 4 .. 5}
\* the pixels immediately around the square: its 4-neighbours outside it
RingPixels ==
    {p \in Pixels(Square10) \ SquarePixels :
        \E q \in SquarePixels : Adjacent(Square10, p, q)}

\* C14: on the 10x10 white image with a 2x2 black square at its centre
\* the edge map marks the 4 pixels of the square (and the 8 pixels of the
\* ring immediately around it, and no other), and the final mask is 255
\* exactly on the square and on that edge-marked ring and 0 on every
\* other pixel.
C14_CentreSquare10x10 ==
    pc = "done" /\ image = Square10 =>
        /\ Cardinality(SquarePixels) = 4 /\ Cardinality(RingPixels) = 8
        /\ \A p \in Pixels(image) :
              /\ edgeMask[p] = 1 <=> p \in SquarePixels \cup RingPixels
              /\ maskData[p] = IF p \in SquarePixels \cup RingPixels THEN 255 ELSE 0

\* the run on that image has finished: the square is kept, and the pixel
\* (3,3) diagonal to its corner is removed
C14_Witness ==
    /\ pc = "done" /\ image = Square10
    /\ maskData[4 * 10 + 4] = 255 /\ maskData[3 * 10 + 3] = 0
    /\ \E p \in Pixels(image) : image.px[p] = White /\ maskData[p] = 255

\* C15: a run that throws gives the App no mask: the throw changes nothing
\* of the App, and when the App handles the rejection it records the
\* generic error, sets processing to false, leaves result null and stores
\* no mask, starts no image load and no new run; after a failure a run is
\* started only by processImageFile on the shown image (Try Again) or,
\* after a reset, on a new upload.
C15_FailureLeavesNoResult ==
    [][/\ pc # "failed" /\ pc' = "failed" =>
             UNCHANGED appVars /\ result = Null /\ processing
       /\ pc = "failed" /\ pc' # "failed" =>
             /\ processingError' = FailureMessage /\ ~processing'
             /\ result' = Null /\ currentMask' = Null
             /\ UNCHANGED <<original, loads, calls>> /\ pc' = "idle"
       /\ processingError # Null /\ calls' # calls =>
             ProcessImageFile(original)]_vars

\* a run has failed after it had classified pixels, and the App shows the
\* error with no cutout and no mask
C15_Witness ==
    /\ pc = "idle" /\ processingError = FailureMessage /\ ~processing
    /\ original # Null /\ image = original
    /\ result = Null /\ currentMask = Null
    /\ \E p \in DOMAIN isBackground : isBackground[p] = 1

Abs(a) == IF a < 0 THEN 0 - a ELSE a

\* C16: a stroke whose centre lies outside the canvas, whose circle
\* straddles the border or whose radius is <= 0 does not fail and is
\* applied in part: the mask keeps its length, a cell changes only to the
\* brush value, only at an index below width*height, and only at a pixel
\* whose column and row lie within radius + 1/2 of the centre (no write
\* wraps into another row); a negative radius writes nothing and radius 0
\* writes the pixel under the centre when it is on the canvas.
C16_InvalidGeometryIsPartial ==
    call # Null /\ call.op = "applyBrushStroke" =>
        LET w == call.img.width
            h == call.img.height
            cx == Round4(call.x)
            cy == Round4(call.y)
        IN /\ ~call.threw
           /\ DOMAIN call.out = DOMAIN call.mask
           /\ \A i \in DOMAIN call.mask :
                 call.out[i] # call.mask[i] =>
                    /\ i < w * h /\ call.out[i] = BrushValue(call.mode)
                    /\ Abs(4 * (i % w) - call.x) <= 2 * call.size + 2
                    /\ Abs(4 * (i \div w) - call.y) <= 2 * call.size + 2
           /\ call.size < 0 => call.out = call.mask
           /\ call.size = 0 /\ cx \in 0 .. (w - 1) /\ cy \in 0 .. (h - 1)
                 /\ cy * w + cx \in DOMAIN call.mask
                 => call.out[cy * w + cx] = BrushValue(call.mode)

\* a stroke centred left of the canvas has written some pixels of a mask
\* of the image's size
C16_Witness ==
    /\ call # Null /\ call.op = "applyBrushStroke" /\ call.x < 0
    /\ Cardinality(DOMAIN call.mask) = call.img.width * call.img.height
    /\ call.out # call.mask

\* C17: from a reset until a newly uploaded image has been segmented (no
\* image is shown, or the run of the new one is in progress) the mask and
\* the cutout stay discarded: result and currentMask are null and the
\* manual editor is hidden, whatever callbacks of the previous session
\* are still pending.
C17_ResetDiscards ==
    original = Null \/ processing =>
        result = Null /\ currentMask = Null /\ ~showManualEditor

\* the squared Euclidean distance of two colours
ColourDist2(c, d) == Sq(c[1] - d[1]) + Sq(c[2] - d[2]) + Sq(c[3] - d[3])

Interior(img, p) ==
    /\ 1 <= p % img.width /\ p % img.width <= img.width - 2
    /\ 1 <= p \div img.width /\ p \div img.width <= img.height - 2

\* the largest squared distance of an interior pixel to its up, down, left
\* and right neighbours
MaxNeighbourDist2(img, p) ==
    Max({ColourDist2(img.px[p], img.px[q]) :
            q \in {p - img.width, p + img.width, p - 1, p + 1}})

\* C18: the edge map marks a pixel if and only if it is an interior pixel
\* and the largest Euclidean RGB distance to its four direct neighbours is
\* greater than 40 (1600 squared; exactly 40 is no edge); the pixels of the
\* outermost rows and columns are not marked.
C18_EdgeIsFourNeighbourMax ==
    image # Null =>
        \A p \in Pixels(image) :
            edgeMask[p] = IF Interior(image, p) /\ MaxNeighbourDist2(image, p) > 1600
                          THEN 1 ELSE 0

\* the edge map of an image with a gradient of exactly 40 (no edge) and one
\* of 41 (an edge)
C18_Witness ==
    /\ image # Null
    /\ \E p, q \in {r \in Pixels(image) : Interior(image, r)} :
          /\ MaxNeighbourDist2(image, p) = 1600 /\ edgeMask[p] = 0
          /\ MaxNeighbourDist2(image, q) = 1681 /\ edgeMask[q] = 1

\* the seed of the floodFill that was called last
FillSeed == SeedAt(image, seedPos - 1)

\* the pixels a floodFill from the seed (sx, sy) may pass: not visited when
\* it began, not edges, within distance 35 of the seed's own colour
Passable(img, edges, base, sx, sy) ==
    {q \in Pixels(img) :
        /\ base[q] = 0 /\ edges[q] = 0
        /\ ColourDist2(img.px[q], img.px[sy * img.width + sx]) <= 35 * 35}

\* the pixels reachable from the seed by 4-connected steps through them
Reachable(img, edges, base, sx, sy) ==
    IF sx \in 0 .. (img.width - 1) /\ sy \in 0 .. (img.height - 1)
       /\ sy * img.width + sx \in Passable(img, edges, base, sx, sy)
    THEN Grow(img, Passable(img, edges, base, sx, sy), {sy * img.width + sx})
    ELSE {}

\* the pixels marked since the floodFill that was called last began
Marked == {p \in Pixels(image) : visited[p] = 1 /\ fillBase[p] = 0}

\* C19: whatever the order in which the entries of the stack are taken, a
\* floodFill from a seed marks, visited and background alike, exactly the
\* pixels reachable from the seed by 4-connected steps through in-bounds
\* pixels that were unvisited when it began, are not edges and lie within
\* distance 35 (inclusive) of the seed's own colour; while it runs it has
\* marked only such pixels.
C19_FillIsOrderFree ==
    fillBase # Null /\ pc \in {"seeding", "filling"} =>
        /\ visited = isBackground
        /\ Marked \subseteq Reachable(image, edgeMask, fillBase, FillSeed.x, FillSeed.y)
        /\ pc = "seeding" =>
              Marked = Reachable(image, edgeMask, fillBase, FillSeed.x, FillSeed.y)

\* a fill has ended that marked several pixels and stopped at the colour
\* tolerance: a reachable pixel has an unmarked, unvisited non-edge
\* neighbour
C19_Witness ==
    /\ pc = "seeding" /\ fillBase # Null /\ Cardinality(Marked) >= 4
    /\ \E p \in Marked : \E q \in Pixels(image) \ Marked :
          Adjacent(image, p, q) /\ visited[q] = 0 /\ edgeMask[q] = 0

\* C20: the fill never marks an edge pixel: at every point of a run no
\* edge pixel is visited or marked background, and in the final mask every
\* edge pixel has 255; when every interior pixel is an edge the background
\* is exactly the outermost one-pixel ring and every interior pixel keeps
\* 255.
C20_EdgesAreNeverFilled ==
    image # Null =>
        /\ \A p \in Pixels(image) :
              edgeMask[p] = 1 =>
                 /\ visited[p] = 0 /\ isBackground[p] = 0
                 /\ pc = "done" => maskData[p] = 255
        /\ pc = "done" /\ (\A p \in Pixels(image) : Interior(image, p) => edgeMask[p] = 1)
              => \A p \in Pixels(image) :
                    maskData[p] = IF Interior(image, p) THEN 255 ELSE 0

\* the run on the steep ramp has finished: every interior pixel is an edge
C20_Witness ==
    /\ pc = "done" /\ image.width >= MaxW
    /\ \A p \in Pixels(image) : Interior(image, p) => edgeMask[p] = 1
    /\ \E p \in Pixels(image) : maskData[p] = 255
    /\ \E p \in Pixels(image) : maskData[p] = 0

\* a restore stroke by a pointer-move has been published and its image
\* load is outstanding
C12_Witness ==
    /\ lastEvent # Null /\ lastEvent.type = "move"
    /\ strokes # <<>> /\ strokes[Len(strokes)].mode = "restore"
    /\ loads = {[img |-> original, mask |-> currentMask]}
    /\ pending.currentMask = <<currentMask>> /\ currentMask # propMask

\* C21: on an image narrower or lower than 20 pixels (twice the 10-pixel
\* band) the border-colour estimator reads every sample at a coordinate
\* inside the image (no read outside the buffer, none in another row than
\* the one of its band), and returns per channel the element at index
\* floor(n/2) of the sorted samples.
C21_SamplesAreInsideTheImage ==
    image # Null /\ (image.width < 2 * bgBorderWidth \/ image.height < 2 * bgBorderWidth) =>
        /\ \A s \in 0 .. (NumBorderSamples(image) - 1) :
              /\ SeedAt(image, s).x \in 0 .. (image.width - 1)
              /\ SeedAt(image, s).y \in 0 .. (image.height - 1)
              /\ InBuffer(image, BorderSampleAt(image, s))
        /\ bgColor = [c \in 1 .. 3 |->
                         SortedChannelAt(image, c - 1, NumBorderSamples(image) \div 2)]

\* the pixels of the current run that are marked visited
VisitedPixels == {p \in Pixels(image) : visited[p] = 1}

\* C22: a run of removeBackground terminates: every floodFill that is
\* called returns with its stack empty and every run that has begun writes
\* its mask; over the run each pixel is marked visited at most once (the
\* writes to `visited` are as many as the visited pixels), floodFill is
\* called at most once per seed test, and the entries put on a stack are
\* one per call and four per marked pixel, at most 4 * width * height plus
\* the number of seed tests.
C22_SegmentTerminates ==
    /\ [][pc' \in {"seeding", "filling", "done"} =>
             /\ cost'.marks = Cardinality(VisitedPixels')
             /\ cost'.marks <= image'.width * image'.height
             /\ cost'.fills <= seedPos' /\ seedPos' <= NumSeeds(image')
             /\ cost'.pushes = cost'.fills + 4 * cost'.marks
             /\ cost'.pushes <= 4 * image'.width * image'.height + NumSeeds(image')]_vars
    /\ (pc = "filling" ~> pc = "seeding" /\ stack = <<>>)
    /\ (pc \in {"seeding", "filling"} ~> pc = "done")

\* a run has returned after several floodFill calls, leaving pixels
\* unvisited, and after more pushes than the image has pixels
C22_Witness ==
    /\ pc = "done" /\ cost.fills >= 3
    /\ cost.marks < image.width * image.height
    /\ cost.pushes > image.width * image.height

\* the outermost rows and columns of an image
OuterRing(img) ==
    {p \in Pixels(img) :
        \/ p % img.width \in {0, img.width - 1}
        \/ p \div img.width \in {0, img.height - 1}}

\* C23: after a run every pixel of the 5-pixel band that is not an edge
\* has mask 0, whatever its colour; every pixel of the outermost rows and
\* columns has mask 0; and in an image at most 10 wide or at most 10 high
\* every pixel that is not an edge has mask 0.
C23_BandIsBackground ==
    pc = "done" =>
        /\ \A p \in BandPixels(image) : edgeMask[p] = 0 => maskData[p] = 0
        /\ \A p \in OuterRing(image) : maskData[p] = 0
        /\ image.width <= 2 * borderWidth \/ image.height <= 2 * borderWidth =>
              \A p \in Pixels(image) : edgeMask[p] = 0 => maskData[p] = 0

\* a run has finished on an image with pixels outside the band, where a
\* band pixel off the outer ring is farther than the tolerance from each of
\* its four neighbours, is not an edge and has mask 0
C23_Witness ==
    /\ pc = "done" /\ BandPixels(image) # Pixels(image)
    /\ \E p \in BandPixels(image) \ OuterRing(image) :
          /\ edgeMask[p] = 0 /\ maskData[p] = 0
          /\ \A q \in Pixels(image) :
                Adjacent(image, p, q) => Gradient2(image, p, q) > Sq(colorTolerance)

\* the strokes 1..k of the session applied, in order, to the mask the
\* editor was opened with (the mask of the run)
RECURSIVE StrokesApplied(_)
StrokesApplied(k) ==
    IF k = 0 THEN maskData
    ELSE ApplyBrushStroke(StrokesApplied(k - 1), original.width, original.height,
                          strokes[k].x, strokes[k].y, strokes[k].size, strokes[k].mode)

\* C24: strokes accumulate and none is lost: in an editing session the
\* mask published to the App is the strokes applied so far, in order, to
\* the initial mask, and so is the editor's own mask once it has rendered,
\* also when pointer events are handled before the render.
C24_StrokesAccumulate ==
    mounted /\ strokes # <<>> =>
        /\ currentMask = StrokesApplied(Len(strokes))
        /\ pending = NoUpdate /\ propMask = currentMask =>
              edCurrentMask = StrokesApplied(Len(strokes))

\* C25: the displayed cutout converges to the latest mask: after strokes,
\* once every image load started by handleMaskUpdate has completed, result
\* is the composite of the original image with the App's currentMask,
\* whatever the order in which the loads completed.
C25_CutoutConverges ==
    original # Null /\ currentMask # Null /\ strokes # <<>> /\ loads = {} =>
        result = GenerateResultImage(original, currentMask)

====
